---- MODULE Spec2Model ----
(***************************************************************************)
(* A model of the todo application: the Task record and its validation     *)
(* (todos/models.py), the task form (todos/forms.py) and the six task      *)
(* views (todos/views.py).  Every view is one action that models the whole *)
(* handler, from the login check to the response.                          *)
(*                                                                         *)
(* Optional values (Python None) are sequences: None is <<>> and a value x *)
(* is <<x>>.  Times are natural numbers.  The stored field updated_at is   *)
(* written by every save and read by nothing in the application; it is     *)
(* left out of the record.                                                 *)
(*                                                                         *)
(* The views run as single steps in Spec, SpecList, SpecDeadline,          *)
(* SpecForms, SpecOrder and SpecViews, which differ in the inputs they     *)
(* send; SpecViews has no direct save.  In SpecConc update, toggle and     *)
(* delete requests run in two steps, the load of the record and its save,  *)
(* with the requests between them kept in inflight.  SpecAccounts and      *)
(* SpecProfiles are the accounts views (accounts/views.py) and the profile *)
(* signal (accounts/models.py) over the user table (accounts) and the      *)
(* client's session.                                                       *)
(***************************************************************************)
EXTENDS Integers, Sequences, FiniteSets, TLC

VARIABLES tasks, nextId, now, response, inflight, accounts, session

vars == <<tasks, nextId, now, response, inflight, accounts, session>>

\* What the task views run as single steps leave alone.
others == <<inflight, accounts, session>>

(* ------------------------------ bounds -------------------------------- *)

\* Primary keys ever allocated: 1..MaxTasks.
MaxTasks == 1
\* The clock runs from 0 to MaxTime.
MaxTime == 1
\* Requests that run between their load and their save at one time.
MaxInflight == 2
\* Users that register on top of those that exist from the start.
MaxRegistered == 2
\* Tasks stored at one time where the order of the list is looked at.
MaxListed == 2

(* ----------------------------- constants ------------------------------ *)

None == <<>>
Some(x) == <<x>>
IsSet(o) == o # None
Val(o) == o[1]

\* The registered users, and request.user of an unauthenticated client.
Users == {"alice", "bob", "carol"}
Anonymous == "AnonymousUser"

PRIORITY_CHOICES == {"low", "medium", "high"}
STATUS_CHOICES == {"pending", "in_progress", "completed"}
PageSize == 10

Times == 0..MaxTime
Ids == 1..MaxTasks

(* --------------------------- Task (models.py) ------------------------- *)

\* The defaults with another priority.
NewTaskLowPriority ==
    [title |-> "", description |-> "", deadline |-> None,
     priority |-> "low", status |-> "pending",
     completed |-> FALSE, completed_at |-> None,
     created_by |-> None, assigned_to |-> None, created_at |-> None]

\* Task(...) with the field defaults of the model, before it has a pk.
NewTask ==
    [title |-> "", description |-> "", deadline |-> None,
     priority |-> "medium", status |-> "pending",
     completed |-> FALSE, completed_at |-> None,
     created_by |-> None, assigned_to |-> None, created_at |-> None]

\* Task.clean, the deadline rule: raises for a new record (pk is None)
\* whose deadline is before the clock reading t.
CleanRaises(task, isNew, t) ==
    IsSet(task.deadline) /\ Val(task.deadline) < t /\ isNew

\* The variant of CleanSync a slip in the elif branch would give.
CleanSyncNoClear(task, t) ==
    IF task.completed /\ ~IsSet(task.completed_at)
    THEN [task EXCEPT !.completed_at = Some(t)]
    ELSE task

\* Task.clean, the second half: completed_at follows completed.
CleanSync(task, t) ==
    IF task.completed /\ ~IsSet(task.completed_at)
    THEN [task EXCEPT !.completed_at = Some(t)]
    ELSE IF ~task.completed /\ IsSet(task.completed_at)
         THEN [task EXCEPT !.completed_at = None]
         ELSE task

\* Model.clean_fields as run by full_clean() with no exclusions: a blank
\* title or priority, or a value outside the choices, raises.
CleanFieldsRaises(task) ==
    \/ task.title = ""
    \/ task.priority \notin PRIORITY_CHOICES
    \/ task.status \notin STATUS_CHOICES
    \/ ~IsSet(task.created_by)
    \/ Val(task.created_by) \notin Users
    \/ (IsSet(task.assigned_to) /\ Val(task.assigned_to) \notin Users)

\* Task.save: full_clean() raises, or the cleaned record is written.
SaveRaises(task, isNew, t) ==
    CleanFieldsRaises(task) \/ CleanRaises(task, isNew, t)

Saved(task, t) == CleanSync(task, t)

\* mark_as_completed with the assignment of completed left out.
mark_as_completed_flag_unset(task, t) ==
    [task EXCEPT !.status = "completed", !.completed_at = Some(t)]

\* mark_as_completed with the assignment of status left out.
mark_as_completed_status_unset(task, t) ==
    [task EXCEPT !.completed = TRUE, !.completed_at = Some(t)]

\* Task.mark_as_completed and Task.mark_as_pending, up to the save().
mark_as_completed(task, t) ==
    [task EXCEPT !.completed = TRUE, !.status = "completed",
                 !.completed_at = Some(t)]

\* mark_as_pending as it would be if it also took the task from its
\* assignee.
mark_as_pending_unassigns(task) ==
    [task EXCEPT !.completed = FALSE, !.status = "pending",
                 !.completed_at = None, !.assigned_to = None]

mark_as_pending(task) ==
    [task EXCEPT !.completed = FALSE, !.status = "pending",
                 !.completed_at = None]

is_overdue(task, t) ==
    IF IsSet(task.deadline) /\ ~task.completed
    THEN t > Val(task.deadline)
    ELSE FALSE

\* A slip that would let the assignee delete.
can_be_deleted_by_or_assignee(task, user) ==
    task.created_by = Some(user) \/ task.assigned_to = Some(user)

can_be_deleted_by(task, user) == task.created_by = Some(user)

\* A slip that would leave out the permission check.
can_be_edited_by_anyone(task, user) == TRUE

\* A slip that would keep the creator only.
can_be_edited_by_creator_only(task, user) == task.created_by = Some(user)

can_be_edited_by(task, user) ==
    task.created_by = Some(user) \/ task.assigned_to = Some(user)

(* --------------------------- TaskForm (forms.py) ---------------------- *)

\* The POST data of the task form.  A field is None when its key is absent
\* (or, for title, deadline and assigned_to, submitted empty); priority may
\* also be submitted empty, Some("").
FormData(title, description, deadline, priority, assigned_to) ==
    [title |-> title, description |-> description, deadline |-> deadline,
     priority |-> priority, assigned_to |-> assigned_to]

\* The candidates without the exclude().
AssignableUsersAll(user) == Users

\* TaskForm.__init__: the candidates of assigned_to exclude the acting user.
AssignableUsers(user) == Users \ {user}

\* clean_deadline with the comparison left out.
clean_deadline_raises_never(data, t) == FALSE

\* TaskForm.clean_deadline at clock reading t.
clean_deadline_raises(data, t) ==
    IsSet(data.deadline) /\ Val(data.deadline) < t

\* The field validation as it would be if clean() had widened the
\* candidates of assigned_to before the field was validated.
FieldErrorsWidened(user, data, t) ==
    {f \in {"title", "deadline", "priority", "assigned_to"} :
        \/ f = "title" /\ (~IsSet(data.title) \/ Val(data.title) = "")
        \/ f = "deadline" /\ clean_deadline_raises(data, t)
        \/ f = "priority" /\ IsSet(data.priority)
                          /\ Val(data.priority) \notin PRIORITY_CHOICES \cup {""}
        \/ f = "assigned_to" /\ IsSet(data.assigned_to)
                             /\ Val(data.assigned_to) \notin Users}

\* The fields that fail field-level validation (BaseForm._clean_fields).
\* The candidates of assigned_to are still those of __init__ here: clean()
\* widens them only after the field has been validated.
FieldErrors(user, data, t) ==
    {f \in {"title", "deadline", "priority", "assigned_to"} :
        \/ f = "title" /\ (~IsSet(data.title) \/ Val(data.title) = "")
        \/ f = "deadline" /\ clean_deadline_raises(data, t)
        \/ f = "priority" /\ IsSet(data.priority)
                          /\ Val(data.priority) \notin PRIORITY_CHOICES \cup {""}
        \/ f = "assigned_to" /\ IsSet(data.assigned_to)
                             /\ Val(data.assigned_to) \notin AssignableUsers(user)}

\* TaskForm.clean: cleaned_data['assigned_to'], the acting user when the
\* field is empty (or failed).
CleanedAssignee(user, data, errs) ==
    IF IsSet(data.assigned_to) /\ "assigned_to" \notin errs
    THEN data.assigned_to
    ELSE Some(user)

\* construct_instance as it would be with created_by among the fields the
\* form writes from the acting user.
ConstructInstanceWithCreator(instance, user, data, errs) ==
    [instance EXCEPT
        !.title = IF "title" \in errs THEN @ ELSE Val(data.title),
        !.description = IF IsSet(data.description)
                        THEN Val(data.description) ELSE "",
        !.deadline = IF "deadline" \in errs THEN @ ELSE data.deadline,
        !.priority = IF "priority" \in errs \/ ~IsSet(data.priority)
                     THEN @ ELSE Val(data.priority),
        !.assigned_to = IF IsSet(data.assigned_to) /\ "assigned_to" \notin errs
                        THEN data.assigned_to ELSE Some(user),
        !.created_by = Some(user)]

\* construct_instance: the cleaned values are written on the instance.  A
\* field that failed is left alone; priority, which has a model default, is
\* left alone when its key is absent from the data.
ConstructInstance(instance, user, data, errs) ==
    [instance EXCEPT
        !.title = IF "title" \in errs THEN @ ELSE Val(data.title),
        !.description = IF IsSet(data.description)
                        THEN Val(data.description) ELSE "",
        !.deadline = IF "deadline" \in errs THEN @ ELSE data.deadline,
        !.priority = IF "priority" \in errs \/ ~IsSet(data.priority)
                     THEN @ ELSE Val(data.priority),
        !.assigned_to = CleanedAssignee(user, data, errs)]

\* form.errors after is_valid(): the field errors, and the error of
\* Task.clean (run by _post_clean at clock reading t2) under "__all__".
FormErrors(instance, isNew, user, data, t1, t2) ==
    LET errs == FieldErrors(user, data, t1)
        inst == ConstructInstance(instance, user, data, errs)
    IN  errs \cup (IF CleanRaises(inst, isNew, t2) THEN {"__all__"} ELSE {})

\* form.instance after a valid is_valid().
FormInstance(instance, user, data, t2) ==
    CleanSync(ConstructInstance(instance, user, data, {}), t2)

(* ----------------------------- responses ------------------------------ *)

NoPage == <<>>

Resp(status, view, message) ==
    [status |-> status, view |-> view, message |-> message,
     errors |-> {}, page |-> NoPage, overdue_count |-> 0]

Render(template) == Resp(200, template, "")
RenderErrors(template, errs) == [Render(template) EXCEPT !.errors = errs]
Redirect(to, message) == Resp(302, to, message)
NotFound == Resp(404, "", "")
ServerError == Resp(500, "", "")
\* login_required for an unauthenticated client.
LoginRedirect == Redirect("login", "")

DeniedView == Redirect("todos:task_list", "You do not have permission to view this task.")
DeniedEdit == Redirect("todos:task_list", "You do not have permission to edit this task.")
DeniedDelete == Redirect("todos:task_list", "You do not have permission to delete this task.")
DeniedModify == Redirect("todos:task_list", "You do not have permission to modify this task.")

(* ------------------------ task_list_view (views.py) ------------------- *)

\* The GET parameters of the list.  A parameter is None when its key is
\* absent; the two checkboxes carry TRUE or FALSE when present.
ListParams(status, priority, show_completed, assigned_to_me, page) ==
    [status |-> status, priority |-> priority,
     show_completed |-> show_completed,
     assigned_to_me |-> assigned_to_me, page |-> page]

\* A ChoiceField(required=False): the cleaned value, "" when absent.
ChoiceValue(o) == IF IsSet(o) THEN Val(o) ELSE ""

\* A BooleanField(required=False) of a bound form: CheckboxInput reads an
\* absent key as False, whatever the field's initial value.
BooleanValue(o) == IsSet(o) /\ Val(o)

\* cleaned_data.get('show_completed', True): the key is always present in
\* cleaned_data, so the default of get() is never used.
ShowCompleted(params) == BooleanValue(params.show_completed)

\* cleaned_data.get('assigned_to_me', False).
AssignedToMe(params) == BooleanValue(params.assigned_to_me)

\* TaskFilterForm.is_valid(): both choices are blank or among the choices.
FilterValid(params) ==
    /\ ChoiceValue(params.status) \in STATUS_CHOICES \cup {""}
    /\ ChoiceValue(params.priority) \in PRIORITY_CHOICES \cup {""}

\* The base set with the assigned_to half left out.
BaseSetCreatedOnly(user) ==
    {pk \in DOMAIN tasks : tasks[pk].created_by = Some(user)}

\* Q(created_by=user) | Q(assigned_to=user), distinct.
BaseSet(user) ==
    {pk \in DOMAIN tasks :
        \/ tasks[pk].created_by = Some(user)
        \/ tasks[pk].assigned_to = Some(user)}

\* The filters of the list view, applied only when the filter form is valid.
Filtered(user, params) ==
    IF ~FilterValid(params) THEN BaseSet(user)
    ELSE {pk \in BaseSet(user) :
            /\ ChoiceValue(params.status) # ""
                 => tasks[pk].status = ChoiceValue(params.status)
            /\ ChoiceValue(params.priority) # ""
                 => tasks[pk].priority = ChoiceValue(params.priority)
            /\ ~ShowCompleted(params) => ~tasks[pk].completed
            /\ AssignedToMe(params)
                 => tasks[pk].assigned_to = Some(user)}

\* order_by('deadline', '-created_at'): a strictly before b.  Where NULL
\* deadlines go is the database's choice (nullsFirst).
Before(a, b, nullsFirst) ==
    LET da == tasks[a].deadline
        db == tasks[b].deadline
    IN  \/ IsSet(da) /\ IsSet(db) /\ Val(da) < Val(db)
        \/ ~IsSet(da) /\ IsSet(db) /\ nullsFirst
        \/ IsSet(da) /\ ~IsSet(db) /\ ~nullsFirst
        \/ /\ da = db
           /\ Val(tasks[a].created_at) > Val(tasks[b].created_at)

\* The orders the database may return the set S in.
Orderings(S, nullsFirst) ==
    {seq \in [1..Cardinality(S) -> S] :
        /\ \A i, j \in 1..Cardinality(S) : i # j => seq[i] # seq[j]
        /\ \A i, j \in 1..Cardinality(S) :
              i < j => ~Before(seq[j], seq[i], nullsFirst)}

\* Paginator(tasks, 10).get_page(number): a missing number is page 1, a
\* number past the end is the last page.
NumPages(n) == IF n = 0 THEN 1 ELSE (n + PageSize - 1) \div PageSize

GetPage(seq, page) ==
    LET n == Len(seq)
        wanted == IF IsSet(page) /\ Val(page) >= 1 THEN Val(page)
                  ELSE IF IsSet(page) THEN NumPages(n) ELSE 1
        p == IF wanted > NumPages(n) THEN NumPages(n) ELSE wanted
        first == (p - 1) * PageSize + 1
        last == IF p * PageSize < n THEN p * PageSize ELSE n
    IN  SubSeq(seq, first, last)

\* The count with the completed=False condition left out.
OverdueCountCompletedToo(user, t) ==
    Cardinality({pk \in BaseSet(user) :
        /\ IsSet(tasks[pk].deadline)
        /\ Val(tasks[pk].deadline) < t})

\* The overdue_count of the list context at clock reading t.
OverdueCount(user, t) ==
    Cardinality({pk \in BaseSet(user) :
        /\ IsSet(tasks[pk].deadline)
        /\ Val(tasks[pk].deadline) < t
        /\ ~tasks[pk].completed})

ListResponse(user, params, seq) ==
    [Render("todos/task_list.html") EXCEPT
        !.page = GetPage(seq, params.page),
        !.overdue_count = OverdueCount(user, now)]

\* The set of task ids a list response shows.
Listed(resp) == {resp.page[i] : i \in 1..Len(resp.page)}

(* ----------------------- the other views (views.py) ------------------- *)

\* What a handler leaves behind: the stored tasks, the next primary key,
\* the clock at its last reading, and the response.
Outcome(ts, nid, t, resp) ==
    [tasks |-> ts, nextId |-> nid, now |-> t, response |-> resp]

Unchanged(resp) == Outcome(tasks, nextId, now, resp)

FormTemplate == "todos/task_form.html"

\* task_create_view.  The clock is read by clean_deadline (now), by
\* Task.clean within is_valid() (t2), by Task.clean within save() (t3) and
\* for created_at (t4).
task_create_view(user, method, data, t2, t3, t4) ==
    IF user = Anonymous THEN Unchanged(LoginRedirect)
    ELSE IF method # "POST" THEN Unchanged(Render(FormTemplate))
    ELSE
      LET errs == FormErrors(NewTask, TRUE, user, data, now, t2)
          inst == [FormInstance(NewTask, user, data, t2)
                      EXCEPT !.created_by = Some(user)]
          task == IF ~IsSet(inst.assigned_to)
                  THEN [inst EXCEPT !.assigned_to = Some(user)]
                  ELSE inst
      IN  IF errs # {}
          THEN Outcome(tasks, nextId, t2, RenderErrors(FormTemplate, errs))
          ELSE IF SaveRaises(task, TRUE, t3)
          THEN Outcome(tasks, nextId, t3, ServerError)
          ELSE Outcome(
                 tasks @@ (nextId :> [Saved(task, t3) EXCEPT !.created_at = Some(t4)]),
                 nextId + 1, t4,
                 Redirect("todos:task_list", "created successfully!"))

\* The permission check of task_detail_view.
can_view(task, user) ==
    ~(task.created_by # Some(user) /\ task.assigned_to # Some(user))

task_detail_view(user, pk) ==
    IF user = Anonymous THEN Unchanged(LoginRedirect)
    ELSE IF pk \notin DOMAIN tasks THEN Unchanged(NotFound)
    ELSE IF ~can_view(tasks[pk], user) THEN Unchanged(DeniedView)
    ELSE Unchanged(Render("todos/task_detail.html"))

\* task_update_view.  Only clean_deadline's reading of the clock decides
\* anything for a stored record.
task_update_view(user, pk, method, data) ==
    IF user = Anonymous THEN Unchanged(LoginRedirect)
    ELSE IF pk \notin DOMAIN tasks THEN Unchanged(NotFound)
    ELSE IF ~can_be_edited_by(tasks[pk], user) THEN Unchanged(DeniedEdit)
    ELSE IF method # "POST" THEN Unchanged(Render(FormTemplate))
    ELSE
      LET errs == FormErrors(tasks[pk], FALSE, user, data, now, now)
          inst == FormInstance(tasks[pk], user, data, now)
      IN  IF errs # {}
          THEN Unchanged(RenderErrors(FormTemplate, errs))
          ELSE IF SaveRaises(inst, FALSE, now)
          THEN Unchanged(ServerError)
          ELSE Outcome([tasks EXCEPT ![pk] = Saved(inst, now)], nextId, now,
                       Redirect("todos:task_detail", "updated successfully!"))

\* The delete view with the test of the method left out.
task_delete_view_any_method(user, pk, method) ==
    IF user = Anonymous THEN Unchanged(LoginRedirect)
    ELSE IF pk \notin DOMAIN tasks THEN Unchanged(NotFound)
    ELSE IF ~can_be_deleted_by(tasks[pk], user) THEN Unchanged(DeniedDelete)
    ELSE Outcome([k \in DOMAIN tasks \ {pk} |-> tasks[k]], nextId, now,
                 Redirect("todos:task_list", "deleted successfully!"))

task_delete_view(user, pk, method) ==
    IF user = Anonymous THEN Unchanged(LoginRedirect)
    ELSE IF pk \notin DOMAIN tasks THEN Unchanged(NotFound)
    ELSE IF ~can_be_deleted_by(tasks[pk], user) THEN Unchanged(DeniedDelete)
    ELSE IF method = "POST"
    THEN Outcome([k \in DOMAIN tasks \ {pk} |-> tasks[k]], nextId, now,
                 Redirect("todos:task_list", "deleted successfully!"))
    ELSE Unchanged(Render("todos/task_confirm_delete.html"))

\* The toggle with the branch taken on status instead of completed.
ToggledByStatus(task, t) ==
    IF task.status = "completed"
    THEN mark_as_pending(task)
    ELSE mark_as_completed(task, t)

\* The branch of task_toggle_complete_view, up to the save().
Toggled(task, t) ==
    IF task.completed
    THEN mark_as_pending(task)
    ELSE mark_as_completed(task, t)

\* The toggle view without login_required.
task_toggle_complete_view_no_login(user, pk, method) ==
    IF pk \notin DOMAIN tasks THEN Unchanged(NotFound)
    ELSE IF ~can_be_edited_by(tasks[pk], user) THEN Unchanged(DeniedModify)
    ELSE
      LET task == Toggled(tasks[pk], now)
      IN  IF SaveRaises(task, FALSE, now)
          THEN Unchanged(ServerError)
          ELSE Outcome([tasks EXCEPT ![pk] = Saved(task, now)], nextId, now,
                       Redirect("todos:task_list",
                                IF tasks[pk].completed
                                THEN "marked as pending."
                                ELSE "marked as completed!"))

\* task_toggle_complete_view: the method of the request is never looked at.
task_toggle_complete_view(user, pk, method) ==
    IF user = Anonymous THEN Unchanged(LoginRedirect)
    ELSE IF pk \notin DOMAIN tasks THEN Unchanged(NotFound)
    ELSE IF ~can_be_edited_by(tasks[pk], user) THEN Unchanged(DeniedModify)
    ELSE
      LET task == Toggled(tasks[pk], now)
      IN  IF SaveRaises(task, FALSE, now)
          THEN Unchanged(ServerError)
          ELSE Outcome([tasks EXCEPT ![pk] = Saved(task, now)], nextId, now,
                       Redirect("todos:task_list",
                                IF tasks[pk].completed
                                THEN "marked as pending."
                                ELSE "marked as completed!"))

\* The responses task_list_view may give: one per order the database may
\* return the filtered set in.
task_list_view(user, params) ==
    IF user = Anonymous THEN {LoginRedirect}
    ELSE {ListResponse(user, params, seq) :
            seq \in UNION {Orderings(Filtered(user, params), nf) : nf \in BOOLEAN}}

(* -------------- the views in two steps: load, then save --------------- *)

\* A request between get_object_or_404 and save() or delete(): the view
\* (op), the acting user, the pk, the submitted form, the instance the
\* view holds in memory with the changes it made to it, the stored tasks
\* when it loaded (seen), and whether it has answered (done).
Request(op, user, pk, data, instance) ==
    [op |-> op, user |-> user, pk |-> pk, data |-> data,
     instance |-> instance, seen |-> tasks, done |-> FALSE]

\* Every request that loaded has answered.
AllDone == \A i \in 1..Len(inflight) : inflight[i].done

\* A request joins those in flight; when all before it have answered,
\* they are forgotten.
Joined(req) == IF AllDone THEN <<req>> ELSE Append(inflight, req)

\* The first half of a view that will write: the record is loaded, the
\* permission checked on it, and the instance changed in memory.
Load(req) ==
    /\ req.pk \in DOMAIN tasks
    /\ AllDone \/ Len(inflight) < MaxInflight
    /\ inflight' = Joined(req)
    /\ UNCHANGED <<tasks, nextId, now, response, accounts, session>>

\* task_toggle_complete_view up to the save() of mark_as_completed or
\* mark_as_pending.
LoadToggle(user, pk) ==
    /\ pk \in DOMAIN tasks
    /\ can_be_edited_by(tasks[pk], user)
    /\ Load(Request("toggle", user, pk, None, Toggled(tasks[pk], now)))

\* task_update_view up to form.save(), for a submission that is valid.
LoadUpdate(user, pk, data) ==
    /\ pk \in DOMAIN tasks
    /\ can_be_edited_by(tasks[pk], user)
    /\ FormErrors(tasks[pk], FALSE, user, data, now, now) = {}
    /\ Load(Request("update", user, pk, Some(data),
                    FormInstance(tasks[pk], user, data, now)))

\* task_delete_view up to task.delete(), for a POST.
LoadDelete(user, pk) ==
    /\ pk \in DOMAIN tasks
    /\ can_be_deleted_by(tasks[pk], user)
    /\ Load(Request("delete", user, pk, None, tasks[pk]))

\* Model.save() of an instance that has a pk: the row is updated, and
\* inserted when no row with that pk is left to update; the insert
\* fills created_at (auto_now_add).
Written(instance, pk, t) ==
    IF pk \in DOMAIN tasks
    THEN [tasks EXCEPT ![pk] = Saved(instance, t)]
    ELSE tasks @@ (pk :> [Saved(instance, t) EXCEPT !.created_at = Some(t)])

\* The second half: save() (full_clean, then the write of the whole
\* record) or delete(), and the response.
Finish(i) ==
    /\ i \in 1..Len(inflight)
    /\ ~inflight[i].done
    /\ LET req == inflight[i]
       IN  /\ inflight' = [inflight EXCEPT ![i].done = TRUE]
           /\ IF req.op = "delete"
              THEN /\ tasks' = [k \in DOMAIN tasks \ {req.pk} |-> tasks[k]]
                   /\ response' = Redirect("todos:task_list",
                                           "deleted successfully!")
              ELSE IF SaveRaises(req.instance, FALSE, now)
              THEN /\ tasks' = tasks
                   /\ response' = ServerError
              ELSE /\ tasks' = Written(req.instance, req.pk, now)
                   /\ response' =
                        IF req.op = "update"
                        THEN Redirect("todos:task_detail",
                                      "updated successfully!")
                        ELSE Redirect("todos:task_list",
                                      IF req.instance.completed
                                      THEN "marked as completed!"
                                      ELSE "marked as pending.")
    /\ UNCHANGED <<nextId, now, accounts, session>>

(* ------------------ users and profiles (accounts/) -------------------- *)

\* UserProfile(user=...) with the field defaults of the model.
NewProfile ==
    [default_task_priority |-> "medium", email_notifications |-> TRUE,
     timezone |-> "UTC"]

\* The receiver without its test of created.
create_user_profile_always(profiles, created) == Append(profiles, NewProfile)

\* The receiver create_user_profile of post_save(User): the profiles of
\* the saved user afterwards.  save_user_profile, the second receiver,
\* saves the profile and changes none of its fields.
create_user_profile(profiles, created) ==
    IF created THEN Append(profiles, NewProfile) ELSE profiles

\* User.objects.create_user(username): the user table afterwards.
CreateUser(table, username) ==
    table @@ (username :> create_user_profile(<<>>, TRUE))

\* The users that exist before the first request, each made by
\* create_user and so each with the profile the signal gave it.
InitialAccounts == [u \in Users |-> create_user_profile(<<>>, TRUE)]

\* login(request, user): the session is the user's; update_last_login
\* saves the user, so the post_save receivers run with created false.
LoggedIn(table, username) ==
    [table EXCEPT ![username] = create_user_profile(@, FALSE)]

\* The POST data of UserCreationForm.
RegisterData(username, password1, password2) ==
    [username |-> username, password1 |-> password1, password2 |-> password2]

\* The passwords the password validators accept, among those the
\* registration tests submit.
AcceptablePasswords == {"testpassword123", "differentpassword"}

\* The fields of UserCreationForm that fail: a username that is empty or
\* taken, an empty password, and, reported on password2, passwords that
\* differ or that the validators refuse.
RegisterErrors(data) ==
    {f \in {"username", "password1", "password2"} :
        \/ f = "username" /\ (data.username = ""
                               \/ data.username \in DOMAIN accounts)
        \/ f = "password1" /\ data.password1 = ""
        \/ f = "password2" /\ (\/ data.password2 = ""
                                \/ data.password1 # data.password2
                                \/ data.password2 \notin AcceptablePasswords)}

\* What an accounts view leaves behind.
AccountsOutcome(table, sess, resp) ==
    [accounts |-> table, session |-> sess, response |-> resp]

RegisterTemplate == "accounts/register.html"

\* register_view without the is_authenticated check.
register_view_anyone(method, data) ==
    IF method = "POST"
    THEN IF RegisterErrors(data) = {}
         THEN AccountsOutcome(
                LoggedIn(CreateUser(accounts, data.username), data.username),
                Some(data.username),
                Redirect("/", "Account created!"))
         ELSE AccountsOutcome(accounts, session,
                [RenderErrors(RegisterTemplate, RegisterErrors(data)) EXCEPT
                   !.message = "There was an error with your registration."])
    ELSE AccountsOutcome(accounts, session, Render(RegisterTemplate))

\* register_view for the client whose session is the variable session.
register_view(method, data) ==
    IF IsSet(session)
    THEN AccountsOutcome(accounts, session, Redirect("/", ""))
    ELSE IF method = "POST"
    THEN IF RegisterErrors(data) = {}
         THEN AccountsOutcome(
                LoggedIn(CreateUser(accounts, data.username), data.username),
                Some(data.username),
                Redirect("/", "Account created!"))
         ELSE AccountsOutcome(accounts, session,
                [RenderErrors(RegisterTemplate, RegisterErrors(data)) EXCEPT
                   !.message = "There was an error with your registration."])
    ELSE AccountsOutcome(accounts, session, Render(RegisterTemplate))

\* CustomLoginView for a POST with the credentials of an existing user:
\* a client already authenticated is redirected as it is.
login_view(username) ==
    IF IsSet(session)
    THEN AccountsOutcome(accounts, session, Redirect("LOGIN_REDIRECT_URL", ""))
    ELSE AccountsOutcome(LoggedIn(accounts, username), Some(username),
                         Redirect("LOGIN_REDIRECT_URL", ""))

logout_view ==
    AccountsOutcome(accounts, None,
                    Redirect("home", "You have been successfully logged out."))

(* ------------------------------ actions ------------------------------- *)

ApplyAccounts(r) ==
    /\ accounts' = r.accounts
    /\ session' = r.session
    /\ response' = r.response
    /\ UNCHANGED <<tasks, nextId, now, inflight>>

Register(method, data) ==
    /\ Cardinality(DOMAIN register_view(method, data).accounts)
          <= Cardinality(Users) + MaxRegistered
    /\ ApplyAccounts(register_view(method, data))

Login(username) ==
    /\ username \in DOMAIN accounts
    /\ ApplyAccounts(login_view(username))

Logout == ApplyAccounts(logout_view)

\* User.objects.create_user(username) outside the registration view, as
\* the tests and the admin site make it: the client and its session are
\* not involved.
UserCreate(username) ==
    /\ username \notin DOMAIN accounts
    /\ Cardinality(DOMAIN accounts) < Cardinality(Users) + MaxRegistered
    /\ accounts' = CreateUser(accounts, username)
    /\ UNCHANGED <<tasks, nextId, now, response, inflight, session>>

Apply(r) ==
    /\ tasks' = r.tasks
    /\ nextId' = r.nextId
    /\ now' = r.now
    /\ response' = r.response
    /\ UNCHANGED others

\* The list as it would be if it stored what it derives: the tasks that
\* are overdue get another status.
TaskListStoresOverdue(user, params) ==
    /\ response' \in task_list_view(user, params)
    /\ tasks' = [pk \in DOMAIN tasks |->
                   IF is_overdue(tasks[pk], now)
                   THEN [tasks[pk] EXCEPT !.status = "in_progress"]
                   ELSE tasks[pk]]
    /\ UNCHANGED <<nextId, now>>
    /\ UNCHANGED others

TaskList(user, params) ==
    /\ response' \in task_list_view(user, params)
    /\ UNCHANGED <<tasks, nextId, now>>
    /\ UNCHANGED others

\* A deadline that is None is never compared with the clock, so the clock
\* is then read for created_at alone.
TaskCreate(user, method, data, t2, t3, t4) ==
    /\ now <= t2 /\ t2 <= t3 /\ t3 <= t4
    /\ ~IsSet(data.deadline) => t2 = now /\ t3 = now
    /\ task_create_view(user, method, data, t2, t3, t4).nextId <= MaxTasks + 1
    /\ Apply(task_create_view(user, method, data, t2, t3, t4))

\* A valid create, read at one clock reading, while fewer than MaxListed
\* tasks have been stored.
TaskCreateListed(user, data) ==
    /\ nextId <= MaxListed
    /\ task_create_view(user, "POST", data, now, now, now).response
          = Redirect("todos:task_list", "created successfully!")
    /\ Apply(task_create_view(user, "POST", data, now, now, now))

TaskDetail(user, pk) == Apply(task_detail_view(user, pk))

TaskUpdate(user, pk, method, data) ==
    Apply(task_update_view(user, pk, method, data))

TaskDelete(user, pk, method) == Apply(task_delete_view(user, pk, method))

TaskToggle(user, pk, method) ==
    Apply(task_toggle_complete_view(user, pk, method))

\* A direct edit of a stored record followed by save(), as the admin site
\* and the tests make, or the save() of an instance that was loaded before
\* another request wrote the record: status, completed and completed_at
\* are assigned and Task.save() validates and writes the whole record.  A
\* save() that raises writes nothing.
ModelSave(pk, status, completed, completed_at) ==
    /\ pk \in DOMAIN tasks
    /\ LET task == [tasks[pk] EXCEPT !.status = status,
                                      !.completed = completed,
                                      !.completed_at = completed_at]
       IN  /\ ~SaveRaises(task, FALSE, now)
           /\ tasks' = [tasks EXCEPT ![pk] = Saved(task, now)]
    /\ UNCHANGED <<nextId, now, response>>
    /\ UNCHANGED others

Tick ==
    /\ now < MaxTime
    /\ now' = now + 1
    /\ UNCHANGED <<tasks, nextId, response>>
    /\ UNCHANGED others

(* --------------------------- specification ---------------------------- *)

NoResponse == Resp(0, "", "")

Init ==
    /\ tasks = <<>>
    /\ nextId = 1
    /\ now = 0
    /\ response = NoResponse
    /\ inflight = <<>>
    /\ accounts = InitialAccounts
    /\ session = None

Methods == {"GET", "POST"}

NoForm == FormData(None, None, None, None, None)
NoParams == ListParams(None, None, None, None, None)

\* A request of an unauthenticated client to each of the six routes.
AnonymousRequest ==
    \E pk \in Ids, m \in Methods :
        \/ TaskList(Anonymous, NoParams)
        \/ TaskCreate(Anonymous, m, NoForm, now, now, now)
        \/ TaskDetail(Anonymous, pk)
        \/ TaskUpdate(Anonymous, pk, m, NoForm)
        \/ TaskDelete(Anonymous, pk, m)
        \/ TaskToggle(Anonymous, pk, m)

\* The requests and direct saves over the inputs I: the users who create
\* (creators), the submissions of create (creates) and of update (updates),
\* the list parameters (params) and the <<status, completed, completed_at>>
\* triples a direct save assigns (saves).  Every registered user sends every other
\* request.
NextOver(I) ==
    \/ Tick
    \/ AnonymousRequest
    \/ \E u \in Users, p \in I.params : TaskList(u, p)
    \/ \E u \in Users : TaskCreate(u, "GET", NoForm, now, now, now)
    \/ \E u \in I.creators, f \in I.creates, t2, t3, t4 \in Times :
          TaskCreate(u, "POST", f, t2, t3, t4)
    \/ \E u \in Users, pk \in Ids : TaskDetail(u, pk)
    \/ \E u \in Users, pk \in Ids : TaskUpdate(u, pk, "GET", NoForm)
    \/ \E u \in Users, pk \in Ids, f \in I.updates : TaskUpdate(u, pk, "POST", f)
    \/ \E u \in Users, pk \in Ids, m \in Methods : TaskDelete(u, pk, m)
    \/ \E u \in Users, pk \in Ids, m \in Methods : TaskToggle(u, pk, m)
    \/ \E pk \in Ids, sv \in I.saves :
          ModelSave(pk, sv[1], sv[2], sv[3])

\* The inputs of Spec: permissions and the life cycle of a task.
LifeCycleInputs ==
    [creators |-> {"alice"},
     creates |-> {FormData(t, None, None, p, a) :
                    t \in {None, Some("Buy milk")},
                    p \in {None, Some("")},
                    a \in {None, Some("alice"), Some("bob")}},
     updates |-> {FormData(t, None, None, None, a) :
                    t \in {None, Some("Buy milk")},
                    a \in {None, Some("alice"), Some("bob")}},
     params |-> {NoParams},
     saves |-> STATUS_CHOICES \X BOOLEAN \X {None, Some(0)}]

Next == NextOver(LifeCycleInputs)

Spec == Init /\ [][Next]_vars

\* The inputs of SpecList: tasks of both priorities, held by the creator or
\* by another user, completed or not, listed under every filter.
ListInputs ==
    [creators |-> {"alice"},
     creates |-> {FormData(Some("Buy milk"), None, None, p, a) :
                    p \in {None, Some("high")},
                    a \in {None, Some("bob")}},
     updates |-> {FormData(Some("Buy milk"), None, None, None, None)},
     params |-> {ListParams(s, p, sc, am, None) :
                    s \in {None, Some("pending"), Some("completed"), Some("archived")},
                    p \in {None, Some("high")},
                    sc \in {None, Some(TRUE), Some(FALSE)},
                    am \in {None, Some(TRUE)}},
     saves |-> {<<"in_progress", FALSE, None>>}]

NextList == NextOver(ListInputs)

SpecList == Init /\ [][NextList]_vars

\* The inputs of SpecDeadline: tasks with and without a deadline, created
\* while the clock runs, and updates that submit a deadline.
DeadlineInputs ==
    [creators |-> {"alice"},
     creates |-> {FormData(Some("Buy milk"), None, dl, None, a) :
                    dl \in {None} \cup {Some(t) : t \in Times},
                    a \in {None, Some("bob")}},
     updates |-> {FormData(Some("Buy milk"), None, dl, None, None) :
                    dl \in {None, Some(0)}},
     params |-> {NoParams},
     saves |-> {<<"in_progress", FALSE, None>>}]

NextDeadline == NextOver(DeadlineInputs)

SpecDeadline == Init /\ [][NextDeadline]_vars

\* The inputs of SpecForms: submissions that fail validation (no title, a
\* deadline of 0 once the clock has moved, the acting user as assignee)
\* next to ones that pass.
FormInputs ==
    [creators |-> {"alice"},
     creates |-> {FormData(t, None, dl, None, a) :
                    t \in {None, Some("Buy milk")},
                    dl \in {None, Some(0)},
                    a \in {None, Some("alice")}},
     updates |-> {FormData(t, None, dl, None, a) :
                    t \in {None, Some("Walk dog")},
                    dl \in {None, Some(0)},
                    a \in {None, Some("alice")}},
     params |-> {NoParams},
     saves |-> {<<"in_progress", FALSE, None>>}]

NextForms == NextOver(FormInputs)

SpecForms == Init /\ [][NextForms]_vars

\* SpecConc: alice creates tasks, for herself or for bob, while no request
\* is in flight; update, toggle and delete requests of the users then run
\* in two steps each, in any interleaving.
ConcForms ==
    {FormData(Some("Walk dog"), None, None, None, a) :
        a \in {None, Some("carol")}}

NextConc ==
    \/ Tick
    \/ \E a \in {None, Some("bob")} :
          /\ AllDone
          /\ TaskCreate("alice", "POST",
                        FormData(Some("Buy milk"), None, None, None, a),
                        now, now, now)
    \/ \E u \in Users, pk \in Ids : LoadToggle(u, pk)
    \/ \E u \in Users, pk \in Ids, f \in ConcForms : LoadUpdate(u, pk, f)
    \/ \E u \in Users, pk \in Ids : LoadDelete(u, pk)
    \/ \E i \in 1..MaxInflight : Finish(i)

SpecConc == Init /\ [][NextConc]_vars

\* SpecAccounts: a client registers, logs in and logs out.
NewNames == {"dave", "erin", "frank", "grace"}

RegisterForms ==
    {RegisterData(n, p1, p2) :
        n \in NewNames \cup {"", "alice"},
        p1 \in {"testpassword123", "123"},
        p2 \in {"testpassword123", "123", "differentpassword"}}

NextAccounts ==
    \/ \E m \in Methods, d \in RegisterForms : Register(m, d)
    \/ \E u \in Users \cup NewNames : Login(u)
    \/ Logout

SpecAccounts == Init /\ [][NextAccounts]_vars

\* SpecProfiles: users are made by registration and by create_user, and
\* saved again by every login.
NextProfiles ==
    \/ \E m \in Methods, d \in RegisterForms : Register(m, d)
    \/ \E u \in NewNames : UserCreate(u)
    \/ \E u \in Users \cup NewNames : Login(u)
    \/ Logout

SpecProfiles == Init /\ [][NextProfiles]_vars

\* SpecOrder: alice creates tasks with and without a deadline while the
\* clock runs, and lists them with nothing filtered out.
OrderForms ==
    {FormData(Some("Buy milk"), None, dl, p, None) :
        dl \in {None} \cup {Some(t) : t \in Times},
        p \in {None, Some("high")}}

ListEverything == ListParams(None, None, Some(TRUE), None, None)

NextOrder ==
    \/ Tick
    \/ \E f \in OrderForms : TaskCreateListed("alice", f)
    \/ TaskList("alice", ListEverything)

SpecOrder == Init /\ [][NextOrder]_vars

\* SpecViews: the requests to the six views and nothing else; no direct
\* save.  alice creates tasks for herself and for bob; the users update,
\* toggle and delete them.
ViewInputs ==
    [creators |-> {"alice"},
     creates |-> {FormData(Some("Buy milk"), None, None, p, a) :
                    p \in {None, Some("high")},
                    a \in {None, Some("bob")}},
     updates |-> {FormData(Some("Walk dog"), None, None, None, a) :
                    a \in {None, Some("bob"), Some("carol")}},
     params |-> {NoParams}]

NextViews ==
    \/ Tick
    \/ AnonymousRequest
    \/ \E u \in Users, p \in ViewInputs.params : TaskList(u, p)
    \/ \E u \in Users : TaskCreate(u, "GET", NoForm, now, now, now)
    \/ \E u \in ViewInputs.creators, f \in ViewInputs.creates, t4 \in Times :
          TaskCreate(u, "POST", f, now, now, t4)
    \/ \E u \in Users, pk \in Ids : TaskDetail(u, pk)
    \/ \E u \in Users, pk \in Ids : TaskUpdate(u, pk, "GET", NoForm)
    \/ \E u \in Users, pk \in Ids, f \in ViewInputs.updates :
          TaskUpdate(u, pk, "POST", f)
    \/ \E u \in Users, pk \in Ids, m \in Methods : TaskDelete(u, pk, m)
    \/ \E u \in Users, pk \in Ids, m \in Methods : TaskToggle(u, pk, m)

SpecViews == Init /\ [][NextViews]_vars

(* ------------------------------ claims -------------------------------- *)

\* The submissions the claims quantify over.
CheckForms ==
    {FormData(t, None, dl, p, a) :
        t \in {None, Some("Buy milk")},
        dl \in {None} \cup {Some(x) : x \in Times},
        p \in {None, Some(""), Some("high")},
        a \in {None} \cup {Some(u) : u \in Users}}

IsCreator(task, user) == task.created_by = Some(user)
IsAssignee(task, user) == task.assigned_to = Some(user)
HasRole(task, user) == IsCreator(task, user) \/ IsAssignee(task, user)

\* The triple (completed, status, completed_at is None) of a task.
Triple(task) == <<task.completed, task.status, ~IsSet(task.completed_at)>>

RedirectsToList(resp) == resp.status = 302 /\ resp.view = "todos:task_list"

\* C1: in every stored state, whatever requests and direct saves led to it,
\* a task is completed if and only if its completed_at is set.
C1_CompletedIffCompletedAt ==
    \A pk \in DOMAIN tasks :
        tasks[pk].completed <=> IsSet(tasks[pk].completed_at)

\* C1 witness: a direct save set completed on a task that had no
\* completed_at (its status is one the views never store with completed),
\* and the stored record carries a completed_at.
C1_Witness ==
    \E pk \in DOMAIN tasks :
        /\ tasks[pk].completed
        /\ tasks[pk].status = "in_progress"
        /\ tasks[pk].completed_at = Some(now)
        /\ tasks[pk].created_at # Some(now)

\* C2: can_be_deleted_by(T, U) is true exactly when U is T.created_by, so
\* it is false for an assignee who is not the creator; and a delete POST
\* removes the task exactly when the requester is its creator.
C2_DeleteOnlyByCreator ==
    \A pk \in DOMAIN tasks, u \in Users :
        /\ can_be_deleted_by(tasks[pk], u) <=> IsCreator(tasks[pk], u)
        /\ IsAssignee(tasks[pk], u) /\ ~IsCreator(tasks[pk], u)
              => ~can_be_deleted_by(tasks[pk], u)
        /\ pk \notin DOMAIN task_delete_view(u, pk, "POST").tasks
              <=> IsCreator(tasks[pk], u)

\* C2 witness: a delete request was refused while the stored task has an
\* assignee other than its creator.
C2_Witness ==
    /\ response = DeniedDelete
    /\ \E pk \in DOMAIN tasks :
          /\ IsSet(tasks[pk].assigned_to)
          /\ tasks[pk].assigned_to # tasks[pk].created_by

\* C3: the permission check of the detail view and can_be_edited_by are
\* the same predicate: true exactly for the creator and the assignee.
C3_ViewIsEdit ==
    \A pk \in DOMAIN tasks, u \in Users :
        /\ can_view(tasks[pk], u) <=> HasRole(tasks[pk], u)
        /\ can_be_edited_by(tasks[pk], u) <=> HasRole(tasks[pk], u)
        /\ (task_detail_view(u, pk).response = DeniedView)
              <=> (task_update_view(u, pk, "GET", NoForm).response = DeniedEdit)

\* C3 witness: the detail page was served while the stored task has an
\* assignee other than its creator, so both halves of the rule matter.
C3_Witness ==
    /\ response = Render("todos/task_detail.html")
    /\ \E pk \in DOMAIN tasks :
          /\ IsSet(tasks[pk].assigned_to)
          /\ tasks[pk].assigned_to # tasks[pk].created_by

\* The submissions sent with a refused update: with and without a title,
\* a deadline, a priority and an assignee.
DeniedForms ==
    {FormData(t, None, dl, p, a) :
        t \in {None, Some("Buy milk")},
        dl \in {None, Some(0)},
        p \in {None, Some("high")},
        a \in {None, Some("bob")}}

\* C4: a detail, update or toggle request by a user who is neither creator
\* nor assignee, and a delete request by any user but the creator, ends in
\* a redirect to the task list and leaves every stored task as it was.
C4_DeniedChangesNothing ==
    \A pk \in DOMAIN tasks, u \in Users :
        /\ ~HasRole(tasks[pk], u) =>
              /\ task_detail_view(u, pk).tasks = tasks
              /\ RedirectsToList(task_detail_view(u, pk).response)
              /\ \A m \in Methods, f \in DeniedForms :
                    LET r == task_update_view(u, pk, m, f)
                    IN  r.tasks = tasks /\ RedirectsToList(r.response)
              /\ \A m \in Methods :
                    /\ task_toggle_complete_view(u, pk, m).tasks = tasks
                    /\ RedirectsToList(task_toggle_complete_view(u, pk, m).response)
        /\ ~IsCreator(tasks[pk], u) =>
              \A m \in Methods :
                  /\ task_delete_view(u, pk, m).tasks = tasks
                  /\ RedirectsToList(task_delete_view(u, pk, m).response)

\* C4 witness: a delete was refused and the task, whose assignee is not its
\* creator, is still stored.
C4_Witness ==
    /\ response = DeniedDelete
    /\ \E pk \in DOMAIN tasks :
          /\ tasks[pk].assigned_to = Some("bob")
          /\ tasks[pk].created_by = Some("alice")

\* The submissions with a title that supply no assigned_to.
UnassignedForms ==
    {f \in CheckForms : IsSet(f.title) /\ ~IsSet(f.assigned_to)}

\* C5: a create that stores a task from a submission without assigned_to
\* stores created_by and assigned_to as the acting user, status pending,
\* completed false, and priority medium when no priority was submitted.
C5_CreateDefaults ==
    \A u \in Users, f \in UnassignedForms, t2, t3, t4 \in Times :
        LET r == task_create_view(u, "POST", f, t2, t3, t4)
        IN  (/\ now <= t2 /\ t2 <= t3 /\ t3 <= t4
             /\ ~IsSet(f.deadline) => t2 = now /\ t3 = now
             /\ nextId \in DOMAIN r.tasks)
            => /\ r.tasks[nextId].created_by = Some(u)
               /\ r.tasks[nextId].assigned_to = Some(u)
               /\ r.tasks[nextId].status = "pending"
               /\ r.tasks[nextId].completed = FALSE
               /\ ~IsSet(f.priority) => r.tasks[nextId].priority = "medium"

\* C5 witness: a create has just stored a task that its creator holds,
\* pending, not completed, of medium priority.
C5_Witness ==
    /\ response = Redirect("todos:task_list", "created successfully!")
    /\ nextId - 1 \in DOMAIN tasks
    /\ tasks[nextId - 1].assigned_to = tasks[nextId - 1].created_by
    /\ tasks[nextId - 1].status = "pending"
    /\ ~tasks[nextId - 1].completed
    /\ tasks[nextId - 1].priority = "medium"

\* Two toggles in a row on a stored record, at clock readings t1 <= t2.
ToggledTwice(task, t1, t2) ==
    Saved(Toggled(Saved(Toggled(task, t1), t1), t2), t2)

\* status is 'completed' exactly when completed is true, else 'pending'.
InLockstep(task) ==
    \/ task.completed /\ task.status = "completed"
    \/ ~task.completed /\ task.status = "pending"

\* C6 as stated: from every stored (completed, status) combination, two
\* toggles in a row return the task to its original triple.
C6_Original ==
    \A pk \in DOMAIN tasks, t2 \in Times :
        now <= t2 =>
            Triple(ToggledTwice(tasks[pk], now, t2)) = Triple(tasks[pk])

\* C6 amended: two toggles in a row return the task to its original triple
\* when its status is 'completed' with completed true or 'pending' with
\* completed false.
C6_ToggleTwiceInLockstep ==
    \A pk \in DOMAIN tasks, t2 \in Times :
        now <= t2 /\ InLockstep(tasks[pk]) =>
            Triple(ToggledTwice(tasks[pk], now, t2)) = Triple(tasks[pk])

\* C6 witness: a toggle has just returned a task to pending.
C6_Witness ==
    /\ response = Redirect("todos:task_list", "marked as pending.")
    /\ \E pk \in DOMAIN tasks :
          Triple(tasks[pk]) = <<FALSE, "pending", TRUE>>

\* C7: one toggle by a permitted user is decided by the stored completed
\* flag alone: a completed task becomes (false, 'pending', no completed_at),
\* any other becomes (true, 'completed', completed_at = now).
C7_ToggleTransition ==
    \A pk \in DOMAIN tasks, u \in Users :
        HasRole(tasks[pk], u) =>
            LET r == task_toggle_complete_view(u, pk, "POST")
            IN  /\ pk \in DOMAIN r.tasks
                /\ RedirectsToList(r.response)
                /\ tasks[pk].completed =>
                      /\ ~r.tasks[pk].completed
                      /\ r.tasks[pk].status = "pending"
                      /\ r.tasks[pk].completed_at = None
                /\ ~tasks[pk].completed =>
                      /\ r.tasks[pk].completed
                      /\ r.tasks[pk].status = "completed"
                      /\ r.tasks[pk].completed_at = Some(now)

\* C7 witness: a toggle has just completed a task at the current time.
C7_Witness ==
    /\ response = Redirect("todos:task_list", "marked as completed!")
    /\ \E pk \in DOMAIN tasks :
          /\ tasks[pk].completed
          /\ tasks[pk].status = "completed"
          /\ tasks[pk].completed_at = Some(now)

\* The list parameters the claims quantify over.
CheckParams ==
    {ListParams(s, p, sc, am, None) :
        s \in {None, Some("")} \cup {Some(x) : x \in STATUS_CHOICES},
        p \in {None, Some("")} \cup {Some(x) : x \in PRIORITY_CHOICES},
        sc \in {None, Some(TRUE), Some(FALSE)},
        am \in {None, Some(TRUE), Some(FALSE)}}

\* A parameter that is supplied with a value.
Supplied(o) == IsSet(o) /\ Val(o) # ""

\* The tasks in which the user is creator or assignee.
RoleSet(user) == {pk \in DOMAIN tasks : HasRole(tasks[pk], user)}

NothingNarrows == ListParams(None, None, Some(TRUE), None, None)

\* Requests with and without each of the four filters.
SomeFilters ==
    {ListParams(s, p, sc, am, None) :
        s \in {None, Some("completed")},
        p \in {None, Some("high")},
        sc \in {None, Some(TRUE), Some(FALSE)},
        am \in {None, Some(TRUE)}}

\* C8: the list of a user never shows a task in which the user has neither
\* role and never shows a task twice; when no filter narrows it (completed
\* tasks shown, no status, priority or assignment filter), it shows exactly
\* the tasks the user created or is assigned.
C8_ListIsBaseSet ==
    \A u \in Users :
        /\ \A p \in SomeFilters : \A resp \in task_list_view(u, p) :
              /\ Listed(resp) \subseteq RoleSet(u)
              /\ Len(resp.page) = Cardinality(Listed(resp))
        /\ \A resp \in task_list_view(u, NothingNarrows) :
              Listed(resp) = RoleSet(u)

\* C8 witness: a list was served that shows a completed task.
C8_Witness ==
    /\ response.view = "todos/task_list.html"
    /\ \E pk \in Listed(response) : pk \in DOMAIN tasks /\ tasks[pk].completed

\* C9 as stated: a list request without a show_completed parameter (no
\* parameters at all, or only status and priority) lists every completed
\* task of the user's base set that matches the filters it supplies.
C9_ShowCompletedDefaultsTrue ==
    \A u \in Users, p \in CheckParams :
        ~IsSet(p.show_completed) /\ ~IsSet(p.assigned_to_me) =>
            \A resp \in task_list_view(u, p) :
                \A pk \in RoleSet(u) :
                    (/\ tasks[pk].completed
                     /\ Supplied(p.status) => tasks[pk].status = Val(p.status)
                     /\ Supplied(p.priority) => tasks[pk].priority = Val(p.priority))
                    => pk \in Listed(resp)

\* What the claim expects a list to show: the base set restricted by each
\* criterion the request supplies and by nothing else.
ExpectedList(user, p) ==
    {pk \in RoleSet(user) :
        /\ Supplied(p.status) => tasks[pk].status = Val(p.status)
        /\ Supplied(p.priority) => tasks[pk].priority = Val(p.priority)
        /\ (IsSet(p.show_completed) /\ ~Val(p.show_completed))
              => ~tasks[pk].completed
        /\ (IsSet(p.assigned_to_me) /\ Val(p.assigned_to_me))
              => IsAssignee(tasks[pk], user)}

\* C10 as stated: for every combination of supplied filters the list shows
\* the base set restricted by each supplied criterion and nothing else.
C10_ListIsExactlyFiltered ==
    \A u \in Users, p \in CheckParams : \A resp \in task_list_view(u, p) :
        Listed(resp) = ExpectedList(u, p)

\* The tasks of the user's base set that is_overdue() holds for now.
OverdueSet(user) == {pk \in RoleSet(user) : is_overdue(tasks[pk], now)}

\* Requests without a filter and with each filter alone.
EachFilter ==
    {NoParams,
     ListParams(Some("completed"), None, None, None, None),
     ListParams(None, Some("high"), None, None, None),
     ListParams(None, None, Some(TRUE), None, None),
     ListParams(None, None, None, Some(TRUE), None)}

\* C11: the overdue_count of every list request is the number of tasks the
\* user created or is assigned whose deadline is set and before now and
\* that are not completed, whatever the filters; these are the tasks
\* is_overdue() holds for; and a toggle of such a task completes it and
\* takes it out of that set.
C11_OverdueCount ==
    \A u \in Users :
        /\ \A p \in EachFilter : \A resp \in task_list_view(u, p) :
              /\ resp.overdue_count = Cardinality(OverdueSet(u))
              /\ resp.overdue_count =
                    Cardinality({pk \in RoleSet(u) :
                        /\ IsSet(tasks[pk].deadline)
                        /\ Val(tasks[pk].deadline) < now
                        /\ ~tasks[pk].completed})
        /\ \A pk \in OverdueSet(u) :
              LET r == task_toggle_complete_view(u, pk, "POST")
              IN  /\ r.tasks[pk].completed
                  /\ ~is_overdue(r.tasks[pk], r.now)

\* C11 witness: a list was served with an overdue count of one while a
\* task past its deadline is stored.
C11_Witness ==
    /\ response.view = "todos/task_list.html"
    /\ response.overdue_count = 1
    /\ \E pk \in DOMAIN tasks : is_overdue(tasks[pk], now)

\* The submissions with a title, with and without a deadline.
DeadlineForms ==
    {FormData(Some("Buy milk"), None, dl, p, a) :
        dl \in {None} \cup {Some(x) : x \in Times},
        p \in {None, Some("")},
        a \in {None, Some("bob")}}

\* C12: a create whose deadline is before the current time is rejected
\* with an error on the deadline field and stores nothing; a create with
\* no deadline gets no deadline error whatever the clock reads, and is
\* stored when its other fields are valid.
C12_PastDeadlineRejected ==
    \A u \in Users, f \in DeadlineForms, t2, t3, t4 \in Times :
        LET r == task_create_view(u, "POST", f, t2, t3, t4)
        IN  (now <= t2 /\ t2 <= t3 /\ t3 <= t4) =>
              /\ (IsSet(f.deadline) /\ Val(f.deadline) < now) =>
                    /\ r.tasks = tasks
                    /\ r.response.status = 200
                    /\ r.response.view = FormTemplate
                    /\ "deadline" \in r.response.errors
              /\ ~IsSet(f.deadline) =>
                    /\ r.response.errors \cap {"deadline", "__all__"} = {}
                    /\ (~IsSet(f.priority) /\ f.assigned_to # Some(u))
                          => nextId \in DOMAIN r.tasks

\* C12 witness: with no task ever stored and the clock past 0, a create
\* was answered with an error on the deadline.
C12_Witness ==
    /\ tasks = <<>>
    /\ nextId = 1
    /\ now > 0
    /\ response.view = FormTemplate
    /\ "deadline" \in response.errors

UpdatedOk == Redirect("todos:task_detail", "updated successfully!")
CreatedOk == Redirect("todos:task_list", "created successfully!")

\* The update that resubmits the title and the deadline of a stored task
\* and leaves the other fields of the form empty.
Resubmitted(task) ==
    FormData(Some(task.title), None, task.deadline, None, None)

\* C13 as stated: for a stored task whose deadline has passed, an update by
\* a permitted user that resubmits that deadline is accepted and persisted.
C13_PastDeadlineKeptOnUpdate ==
    \A pk \in DOMAIN tasks, u \in Users :
        (/\ HasRole(tasks[pk], u)
         /\ IsSet(tasks[pk].deadline)
         /\ Val(tasks[pk].deadline) < now)
        => LET r == task_update_view(u, pk, "POST", Resubmitted(tasks[pk]))
           IN  /\ r.response = UpdatedOk
               /\ r.tasks[pk].deadline = tasks[pk].deadline

\* C14: a step that stores a new task is a create request, and the task's
\* created_by is the acting user of every create request that gives that
\* step; no step, whether an update, a toggle, a direct save or a refused or
\* failed request, changes the created_by of a task that stays stored.
C14_CreatedByFixed ==
    [][/\ \A pk \in DOMAIN tasks' \ DOMAIN tasks :
             /\ \E u \in Users, f \in LifeCycleInputs.creates, t \in Times :
                   /\ task_create_view(u, "POST", f, t, t, t).tasks = tasks'
                   /\ tasks'[pk].created_by = Some(u)
             /\ \A u \in Users, f \in LifeCycleInputs.creates, t \in Times :
                   task_create_view(u, "POST", f, t, t, t).tasks = tasks'
                     => tasks'[pk].created_by = Some(u)
       /\ \A pk \in DOMAIN tasks \cap DOMAIN tasks' :
             tasks'[pk].created_by = tasks[pk].created_by]_vars

\* C14 witness: an update has been stored for a task whose assignee is not
\* its creator, and the creator is still the user who created it.
C14_Witness ==
    /\ response = UpdatedOk
    /\ \E pk \in DOMAIN tasks :
          /\ tasks[pk].created_by = Some("alice")
          /\ tasks[pk].assigned_to = Some("bob")

\* C15 as stated: a create or an update by a permitted user that leaves
\* assigned_to empty stores the task's created_by as its assigned_to.
C15_EmptyAssigneeIsCreator ==
    /\ \A u \in Users, f \in UnassignedForms :
          LET r == task_create_view(u, "POST", f, now, now, now)
          IN  nextId \in DOMAIN r.tasks
                => r.tasks[nextId].assigned_to = r.tasks[nextId].created_by
    /\ \A pk \in DOMAIN tasks, u \in Users, f \in UnassignedForms :
          LET r == task_update_view(u, pk, "POST", f)
          IN  (HasRole(tasks[pk], u) /\ r.response = UpdatedOk)
                => r.tasks[pk].assigned_to = tasks[pk].created_by

\* C17 as stated: every create and every update submission by a permitted
\* user ends either in a stored task with the success redirect or in the
\* form shown again with field errors, whatever the clock reads at the
\* three validation steps.
C17_SavedOrFieldErrors ==
    /\ \A u \in Users, f \in DeadlineForms, t2, t3, t4 \in Times :
          LET r == task_create_view(u, "POST", f, t2, t3, t4)
          IN  (now <= t2 /\ t2 <= t3 /\ t3 <= t4) =>
                \/ r.response = CreatedOk /\ nextId \in DOMAIN r.tasks
                \/ /\ r.response.status = 200
                   /\ r.response.view = FormTemplate
                   /\ r.response.errors # {}
    /\ \A pk \in DOMAIN tasks, u \in Users, f \in DeadlineForms :
          LET r == task_update_view(u, pk, "POST", f)
          IN  HasRole(tasks[pk], u) =>
                \/ r.response = UpdatedOk
                \/ /\ r.response.status = 200
                   /\ r.response.view = FormTemplate
                   /\ r.response.errors # {}

\* Submissions with and without a title, a deadline of 0 and an assignee:
\* a user, the acting user included, or a name that is no user.
FailingForms ==
    {FormData(t, None, dl, None, a) :
        t \in {None, Some("Walk dog")},
        dl \in {None, Some(0)},
        a \in {None, Some("mallory")} \cup {Some(u) : u \in Users}}

\* The submission of the user fails validation at the current time: it has
\* no title, a deadline in the past, or an assignee that is the acting
\* user or no user at all.
Fails(user, f) ==
    \/ ~IsSet(f.title)
    \/ IsSet(f.deadline) /\ Val(f.deadline) < now
    \/ IsSet(f.assigned_to) /\ Val(f.assigned_to) \notin Users \ {user}

\* C16: a create or update submission that fails validation leaves the
\* stored tasks as they were: the failed create adds none, the failed
\* update changes no field, and the form is shown again with its errors.
C16_FailedSubmissionStoresNothing ==
    \A u \in Users, f \in FailingForms :
        Fails(u, f) =>
          /\ \A t2, t3, t4 \in Times :
                LET r == task_create_view(u, "POST", f, t2, t3, t4)
                IN  (now <= t2 /\ t2 <= t3 /\ t3 <= t4) =>
                      /\ r.tasks = tasks
                      /\ r.nextId = nextId
                      /\ r.response.errors # {}
          /\ \A pk \in DOMAIN tasks :
                LET r == task_update_view(u, pk, "POST", f)
                IN  /\ r.tasks = tasks
                    /\ HasRole(tasks[pk], u) => r.response.errors # {}

\* C16 witness: a submission without a title was answered with the form
\* and its errors while a task with a title is stored.
C16_Witness ==
    /\ response.view = FormTemplate
    /\ "title" \in response.errors
    /\ \E pk \in DOMAIN tasks : tasks[pk].title # ""

\* C18: a request of an unauthenticated client to any of the six task
\* routes, with any method, is redirected to the login route and leaves
\* the stored tasks as they were.
C18_AnonymousRedirected ==
    LET ToLogin(r) == /\ r.response.status = 302
                      /\ r.response.view = "login"
                      /\ r.tasks = tasks
    IN  /\ \A p \in EachFilter : \A resp \in task_list_view(Anonymous, p) :
              resp.status = 302 /\ resp.view = "login"
        /\ \A m \in Methods, f \in FailingForms :
              /\ ToLogin(task_create_view(Anonymous, m, f, now, now, now))
              /\ \A pk \in Ids \cup DOMAIN tasks :
                    /\ ToLogin(task_detail_view(Anonymous, pk))
                    /\ ToLogin(task_update_view(Anonymous, pk, m, f))
                    /\ ToLogin(task_delete_view(Anonymous, pk, m))
                    /\ ToLogin(task_toggle_complete_view(Anonymous, pk, m))

\* C18 witness: an unauthenticated request was sent to the login route
\* while a task is stored.
C18_Witness ==
    /\ response = LoginRedirect
    /\ tasks # <<>>

\* The stored tasks ts after the request runs alone, from its load to its
\* save, at clock reading t.
RunAlone(req, ts, t) ==
    IF req.pk \notin DOMAIN ts THEN ts
    ELSE IF req.op = "delete"
    THEN IF can_be_deleted_by(ts[req.pk], req.user)
         THEN [k \in DOMAIN ts \ {req.pk} |-> ts[k]]
         ELSE ts
    ELSE IF ~can_be_edited_by(ts[req.pk], req.user) THEN ts
    ELSE IF req.op = "toggle"
    THEN [ts EXCEPT ![req.pk] = Saved(Toggled(@, t), t)]
    ELSE IF FormErrors(ts[req.pk], FALSE, req.user, Val(req.data), t, t) # {}
    THEN ts
    ELSE [ts EXCEPT ![req.pk] =
             Saved(FormInstance(@, req.user, Val(req.data), t), t)]

\* The stored tasks after the requests reqs[order[i]], ..., reqs[order[n]]
\* run alone one after another from ts, the k-th at clock reading at[k].
RECURSIVE RunInOrder(_, _, _, _, _)
RunInOrder(ts, reqs, order, at, i) ==
    IF i > Len(reqs) THEN ts
    ELSE RunInOrder(RunAlone(reqs[order[i]], ts, at[i]), reqs, order, at, i + 1)

\* What running the requests one after another, in some order and at some
\* non-decreasing clock readings, can leave stored.
SerialResults(ts, reqs) ==
    LET n == Len(reqs)
    IN  {RunInOrder(ts, reqs, order, at, 1) :
            order \in {o \in [1..n -> 1..n] :
                          \A i, j \in 1..n : i # j => o[i] # o[j]},
            at \in {a \in [1..n -> Times] :
                       \A i, j \in 1..n : i < j => a[i] <= a[j]}}

\* C19 as stated: when the requests that ran concurrently have all
\* answered, the stored tasks are what running those requests one after
\* another in some order, from the tasks stored when the first of them
\* loaded, leaves stored.
C19_Serializable ==
    (inflight # <<>> /\ AllDone)
        => tasks \in SerialResults(inflight[1].seen, inflight)

\* The submission is valid: a username that is not empty and not taken,
\* and two equal passwords that the validators accept.
ValidRegistration(d) ==
    /\ d.username # ""
    /\ d.username \notin DOMAIN accounts
    /\ d.password1 = d.password2
    /\ d.password1 \in AcceptablePasswords

\* C20: register adds a user exactly when the client is anonymous and
\* POSTs a valid submission; it then adds that one user and the session
\* becomes that user's; in every other case the users and the session
\* stay as they were.
C20_RegisterAddsOneUser ==
    \A m \in Methods, d \in RegisterForms :
        LET r == register_view(m, d)
            ok == ~IsSet(session) /\ m = "POST" /\ ValidRegistration(d)
        IN  /\ (DOMAIN r.accounts # DOMAIN accounts) <=> ok
            /\ \A u \in DOMAIN accounts :
                  u \in DOMAIN r.accounts /\ r.accounts[u] = accounts[u]
            /\ ok => /\ DOMAIN r.accounts = DOMAIN accounts \cup {d.username}
                     /\ r.session = Some(d.username)
            /\ ~ok => r.accounts = accounts /\ r.session = session

\* C20 witness: a registration has just added dave, and the session is
\* dave's.
C20_Witness ==
    /\ response = Redirect("/", "Account created!")
    /\ "dave" \in DOMAIN accounts
    /\ session = Some("dave")

\* C21: every user has exactly one profile, whether the user was made by
\* registration or by create_user, and whatever logins saved the user
\* again since; the profile has default_task_priority 'medium',
\* email_notifications true and timezone 'UTC'; and a further login of
\* any user leaves every user with that one profile.
C21_OneProfilePerUser ==
    /\ \A u \in DOMAIN accounts :
          /\ Len(accounts[u]) = 1
          /\ accounts[u][1].default_task_priority = "medium"
          /\ accounts[u][1].email_notifications = TRUE
          /\ accounts[u][1].timezone = "UTC"
    /\ \A u \in DOMAIN accounts :
          ~IsSet(session) =>
             \A v \in DOMAIN accounts : Len(login_view(u).accounts[v]) = 1

\* C21 witness: dave, who was not among the first users, has logged in
\* after his user was made and has one profile.
C21_Witness ==
    /\ response = Redirect("LOGIN_REDIRECT_URL", "")
    /\ session = Some("dave")
    /\ "dave" \in DOMAIN accounts
    /\ Len(accounts["dave"]) = 1

\* C22 as stated: a POST to the toggle route by a permitted user changes
\* the completed flag of the task, and a GET to the same route by the same
\* user leaves the stored tasks as they were.
C22_ToggleOnlyOnPost ==
    \A pk \in DOMAIN tasks, u \in Users :
        HasRole(tasks[pk], u) =>
            /\ task_toggle_complete_view(u, pk, "POST").tasks[pk].completed
                  # tasks[pk].completed
            /\ task_toggle_complete_view(u, pk, "GET").tasks = tasks

DeletedOk == Redirect("todos:task_list", "deleted successfully!")
ConfirmDelete == Render("todos/task_confirm_delete.html")

\* C23: a GET to the delete route by the creator shows the confirmation
\* and leaves the stored tasks as they were; a POST by the creator removes
\* that task and no other and redirects to the list; and a request with
\* any method by any other user removes nothing.
C23_DeleteTwoPhase ==
    \A pk \in DOMAIN tasks, u \in Users :
        LET get == task_delete_view(u, pk, "GET")
            post == task_delete_view(u, pk, "POST")
        IN  /\ get.tasks = tasks
            /\ IsCreator(tasks[pk], u) =>
                  /\ get.response = ConfirmDelete
                  /\ pk \notin DOMAIN post.tasks
                  /\ DOMAIN post.tasks = DOMAIN tasks \ {pk}
                  /\ \A k \in DOMAIN post.tasks : post.tasks[k] = tasks[k]
                  /\ post.nextId = nextId
                  /\ post.response = DeletedOk
            /\ ~IsCreator(tasks[pk], u) => post.tasks = tasks

\* C23 witness: the confirmation was shown and the task it asks about is
\* still stored.
C23_Witness ==
    /\ response = ConfirmDelete
    /\ tasks # <<>>

\* The order the claim gives two listed tasks: a before b when a's
\* deadline is the earlier, when a has a deadline and b has none, or when
\* the deadlines are equal (or both absent) and a was created later.
ListedBefore(a, b) ==
    LET da == tasks[a].deadline
        db == tasks[b].deadline
    IN  \/ IsSet(da) /\ IsSet(db) /\ Val(da) < Val(db)
        \/ IsSet(da) /\ ~IsSet(db)
        \/ da = db /\ Val(tasks[a].created_at) > Val(tasks[b].created_at)

\* C24 as stated: in every list the earlier deadline comes first, a task
\* without a deadline comes after every task with one, and equal
\* deadlines are ordered by created_at, most recent first.
C24_ListOrder ==
    \A resp \in task_list_view("alice", ListEverything) :
        \A i, j \in 1..Len(resp.page) :
            i < j => ~ListedBefore(resp.page[j], resp.page[i])

\* Submissions that name an assignee: with a new title, with and without
\* a deadline and a priority.
AssignedForms ==
    {FormData(Some("Walk dog"), None, dl, p, Some(a)) :
        dl \in {None, Some(MaxTime)},
        p \in {None, Some("high")},
        a \in {"bob", "carol"}}

\* The fields the form writes, and those the toggle writes.
FormFields(task) ==
    <<task.title, task.description, task.deadline, task.priority,
      task.assigned_to>>
ToggleFields(task) == <<task.completed, task.status, task.completed_at>>

\* The tasks other than pk are stored in ts as they are stored now.
OthersKept(ts, pk) ==
    /\ DOMAIN ts = DOMAIN tasks
    /\ \A k \in DOMAIN tasks \ {pk} : ts[k] = tasks[k]

Mutation(ts) ==
    IF DOMAIN ts = DOMAIN tasks
    THEN \E pk \in DOMAIN tasks :
            \/ \E u \in Users, m \in Methods :
                  task_toggle_complete_view(u, pk, m).tasks = ts
            \/ \E sv \in DeadlineInputs.saves :
                  ts = [tasks EXCEPT ![pk] =
                          Saved([@ EXCEPT !.status = sv[1],
                                          !.completed = sv[2],
                                          !.completed_at = sv[3]], now)]
            \/ \E u \in Users, f \in DeadlineInputs.updates :
                  task_update_view(u, pk, "POST", f).tasks = ts
    ELSE IF DOMAIN ts \subseteq DOMAIN tasks
    THEN \E u \in Users, pk \in DOMAIN tasks :
            task_delete_view(u, pk, "POST").tasks = ts
    ELSE \E u \in DeadlineInputs.creators, f \in DeadlineInputs.creates,
            t2, t3, t4 \in Times :
            task_create_view(u, "POST", f, t2, t3, t4).tasks = ts

\* C26: a step in which the clock moves and no task is created stores no
\* change, whatever deadlines the clock passes; a step that answers with a
\* list stores no change; and every step that changes the stored tasks is
\* a create, an update, a toggle, a delete or a direct save.
C26_OverdueIsDerived ==
    [][/\ (now' # now /\ nextId' = nextId) => tasks' = tasks
       /\ (response' # response /\ response'.view = "todos/task_list.html")
             => tasks' = tasks /\ nextId' = nextId
       /\ tasks' # tasks => Mutation(tasks')]_vars

\* C26 witness: a task created at 0 with deadline 0 is overdue, the clock
\* having moved since, and is stored pending as it was created.
C26_Witness ==
    /\ response = CreatedOk
    /\ now > 0
    /\ \E pk \in DOMAIN tasks :
          /\ is_overdue(tasks[pk], now)
          /\ tasks[pk].created_at = Some(0)
          /\ tasks[pk].status = "pending"
          /\ ~tasks[pk].completed

\* The submissions in which the user names itself as assignee.
SelfAssigned(user) ==
    {FormData(t, None, dl, None, Some(user)) :
        t \in {None, Some("Walk dog")},
        dl \in {None, Some(0)}}

\* C27: the candidates of assigned_to in an unsubmitted form are all
\* users but the acting user; a create or an update whose assigned_to is
\* the acting user is answered with an error on assigned_to and stores
\* nothing; so a create stores the acting user as assignee only from a
\* submission without assigned_to.
C27_SelfOnlyByDefault ==
    \A u \in Users :
        /\ AssignableUsers(u) = Users \ {u}
        /\ \A f \in SelfAssigned(u) :
              /\ \A t2, t3, t4 \in Times :
                    LET r == task_create_view(u, "POST", f, t2, t3, t4)
                    IN  (now <= t2 /\ t2 <= t3 /\ t3 <= t4) =>
                          /\ r.tasks = tasks
                          /\ r.response.view = FormTemplate
                          /\ "assigned_to" \in r.response.errors
              /\ \A pk \in DOMAIN tasks :
                    LET r == task_update_view(u, pk, "POST", f)
                    IN  HasRole(tasks[pk], u) =>
                          /\ r.tasks = tasks
                          /\ r.response.view = FormTemplate
                          /\ "assigned_to" \in r.response.errors
        /\ \A f \in FailingForms :
              LET r == task_create_view(u, "POST", f, now, now, now)
              IN  (nextId \in DOMAIN r.tasks
                   /\ r.tasks[nextId].assigned_to = Some(u))
                    => ~IsSet(f.assigned_to)

\* C27 witness: a submission was answered with an error on assigned_to
\* while a task that alice holds by default is stored.
C27_Witness ==
    /\ response.view = FormTemplate
    /\ "assigned_to" \in response.errors
    /\ \E pk \in DOMAIN tasks :
          /\ tasks[pk].created_by = Some("alice")
          /\ tasks[pk].assigned_to = Some("alice")

\* C28: in every state reached through the views alone, every stored task
\* has status 'completed' and completed true, or status 'pending' and
\* completed false; status 'in_progress' is never stored.
C28_ViewsKeepLockstep ==
    \A pk \in DOMAIN tasks :
        /\ tasks[pk].status = "completed" <=> tasks[pk].completed
        /\ ~tasks[pk].completed => tasks[pk].status = "pending"
        /\ tasks[pk].status # "in_progress"

\* C28 witness: a task that was updated has just been completed by a
\* toggle and is stored completed with status 'completed'.
C28_Witness ==
    /\ response = Redirect("todos:task_list", "marked as completed!")
    /\ \E pk \in DOMAIN tasks :
          /\ tasks[pk].title = "Walk dog"
          /\ tasks[pk].completed
          /\ tasks[pk].status = "completed"

\* C29 as stated: a task that a delete has removed is never stored again:
\* whatever requests are in flight, a step stores a task it did not find
\* stored only under a primary key that was never given out before.
C29_DeletionIsFinal ==
    [][\A pk \in DOMAIN tasks' \ DOMAIN tasks : pk >= nextId]_vars

\* C30 as stated: whatever requests are in flight, the save of an update
\* or a toggle that changes a stored task is made for a user who is then
\* the creator or the assignee of the task as it is stored.
C30_WriterHasRoleAtWrite ==
    [][\A i \in 1..Len(inflight) :
          (/\ i <= Len(inflight')
           /\ ~inflight[i].done
           /\ inflight'[i].done
           /\ inflight[i].op # "delete"
           /\ inflight[i].pk \in DOMAIN tasks
           /\ tasks' # tasks)
          => HasRole(tasks[inflight[i].pk], inflight[i].user)]_vars

====
